---- MODULE Spec2Model ----
(***************************************************************************)
(* State-machine model of the second-stage fine-tuning loop of             *)
(* train_finetune.py (function main): startup and checkpoint restore, the  *)
(* epoch / batch curriculum, the discriminator, generator and adversarial  *)
(* SLM phases of a training step with the gradient surgery of the          *)
(* adversarial stage, the validation pass, the end-of-epoch report and the *)
(* checkpoint save.                                                        *)
(*                                                                         *)
(* Numbers that the program holds as floats (gradients, the scale factor)  *)
(* are exact rationals <<numerator, denominator>> here.                    *)
(***************************************************************************)
EXTENDS Integers, Sequences, FiniteSets, TLC

(***************************************************************************)
(* Bounds of the model.                                                    *)
(***************************************************************************)
\* configured number of epochs (config "epochs")
Epochs == 2
\* len(train_dataloader)
NumBatches == 1
\* number of batches of val_dataloader
NumValBatches == 2
\* largest epoch stored in a checkpoint found on disk at startup
MaxStart == 1
\* number of runs (processes) of the script that are followed
MaxRuns == 2
\* configured log_interval
LogInterval == 1

(***************************************************************************)
(* Program constants.                                                      *)
(***************************************************************************)
\* floor of the cropped width, "if gt.size(-1) < 80"
MinWidth == 80
\* config.get("max_len", 200)
max_len == 200

(***************************************************************************)
(* Exact rationals.                                                        *)
(***************************************************************************)
Abs(x) == IF x < 0 THEN -x ELSE x

RECURSIVE Gcd(_, _)
Gcd(a, b) == IF b = 0 THEN a ELSE Gcd(b, a % b)

\* the rational n/d in lowest terms with a positive denominator
Rat(n, d) ==
    LET g == Gcd(Abs(n), Abs(d))
        s == IF d < 0 THEN -1 ELSE 1
    IN  <<(s * n) \div g, (s * d) \div g>>

RInt(n) == <<n, 1>>
RMul(a, b) == Rat(a[1] * b[1], a[2] * b[2])
RAdd(a, b) == Rat(a[1] * b[2] + b[1] * a[2], a[2] * b[2])
RInv(a) == Rat(a[2], a[1])
RGreater(a, b) == a[1] * b[2] > b[1] * a[2]

\* floor of the square root of a natural number
ISqrt(n) == CHOOSE k \in 0..n : k * k <= n /\ (k + 1) * (k + 1) > n
\* x ** 0.5 of a rational (exact on the squares of rationals)
RSqrt(a) == Rat(ISqrt(a[1]), ISqrt(a[2]))

(***************************************************************************)
(* The model registry: the named units of build_model, and a parameter     *)
(* table.  Every parameter is a one-element tensor, so its L2 norm is the  *)
(* absolute value of its gradient.                                         *)
(***************************************************************************)
Units ==
    {"bert", "bert_encoder", "predictor", "decoder", "text_encoder",
     "predictor_encoder", "style_encoder", "diffusion", "text_aligner",
     "pitch_extractor", "mpd", "msd", "wd"}

Params ==
    {"predictor.duration_proj", "predictor.lstm", "predictor.shared",
     "diffusion.diffusion", "bert.encoder", "bert.embeddings",
     "decoder.generator"}

\* model[key].parameters()
UnitOf(p) ==
    CASE p \in {"predictor.duration_proj", "predictor.lstm", "predictor.shared"}
            -> "predictor"
      [] p = "diffusion.diffusion" -> "diffusion"
      [] p \in {"bert.encoder", "bert.embeddings"} -> "bert"
      [] OTHER -> "decoder"

ParamsOf(key) == {p \in Params : UnitOf(p) = key}

\* p.requires_grad: the embeddings of bert are frozen
RequiresGrad(p) == p # "bert.embeddings"

\* p.grad is None
NoneGrad == <<0, 0>>

NoGrads == [p \in Params |-> NoneGrad]

(***************************************************************************)
(* Gradient surgery of the adversarial stage, as pure functions of the     *)
(* gradients g : Params -> rational or NoneGrad.                           *)
(***************************************************************************)
RECURSIVE SumSq(_, _)
SumSq(g, ps) ==
    IF ps = {} THEN RInt(0)
    ELSE LET p == CHOOSE q \in ps : TRUE
         IN  RAdd(RMul(g[p], g[p]), SumSq(g, ps \ {p}))

\* total_norm[key]: the L2 norm over the parameters of a unit that have a
\* gradient and require one
TotalNorm(g, key) ==
    RSqrt(SumSq(g, {p \in ParamsOf(key) : g[p] # NoneGrad /\ RequiresGrad(p)}))

\* "if total_norm['predictor'] > slmadv_params.thresh"
RescaleFires(g, thresh) == RGreater(TotalNorm(g, "predictor"), RInt(thresh))

\* the factor of "p.grad *= 1 / total_norm['predictor']"
RescaleFactor(g, thresh) == RInv(TotalNorm(g, "predictor"))

\* gradient scaling: every gradient of every unit that is not None
GradScaling(g, thresh) ==
    IF RescaleFires(g, thresh)
    THEN [p \in Params |->
            IF g[p] # NoneGrad THEN RMul(g[p], RescaleFactor(g, thresh))
            ELSE NoneGrad]
    ELSE g

\* the parameters of predictor.duration_proj, predictor.lstm and diffusion
Amplified ==
    {"predictor.duration_proj", "predictor.lstm"} \cup ParamsOf("diffusion")

\* the amplification applied only when the rescale has changed the gradients
GradAmplifyIfRescaled(g, scale) ==
    [p \in Params |->
        IF p \in Amplified /\ g[p] # NoneGrad
              /\ TotalNorm(g, "predictor") = RInt(1)
        THEN RMul(g[p], scale) ELSE g[p]]

\* "p.grad *= slmadv_params.scale" over the three parameter subsets
GradAmplify(g, scale) ==
    [p \in Params |->
        IF p \in Amplified /\ g[p] # NoneGrad THEN RMul(g[p], scale) ELSE g[p]]

(***************************************************************************)
(* Inputs: the gradients that loss_gen_lm.backward() leaves, the lengths   *)
(* of the shortest mel of a batch, the batch-wise std of the style target. *)
(***************************************************************************)
GradOf(dp, lstm, sh, df, be, de) ==
    [p \in Params |->
        CASE p = "predictor.duration_proj" -> RInt(dp)
          [] p = "predictor.lstm" -> RInt(lstm)
          [] p = "predictor.shared" -> RInt(sh)
          [] p = "diffusion.diffusion" -> RInt(df)
          [] p = "bert.encoder" -> RInt(be)
          [] p = "bert.embeddings" -> NoneGrad
          [] OTHER -> IF de = 0 THEN NoneGrad ELSE RInt(de)]

\* predictor norms 10, 2 and 5
GradCases ==
    {GradOf(6, -8, 0, 3, -4, 0), GradOf(0, 2, 0, 1, 2, 1),
     GradOf(3, 0, 4, -2, 1, 0)}

MelLens == {80, 81, 82, 83}

\* s_trg.std(axis=-1).mean().item() of a batch: the style encoders are
\* trained, and the std of their output moves with the epoch e
SigmaOf(e) == e + 1

\* mel_len = min(int(mel_input_length.min().item() / 2 - 1), max_len // 2),
\* and gt holds the columns random_start * 2 .. (random_start + mel_len) * 2
CropWidth(minlen) ==
    LET half == (minlen - 2) \div 2
        mel_len == IF half < max_len \div 2 THEN half ELSE max_len \div 2
    IN  2 * mel_len

(***************************************************************************)
(* State.                                                                  *)
(***************************************************************************)
VARIABLES
    run,            \* which run of the script this is (1 .. MaxRuns)
    config,         \* the resolved configuration of the run
    disk,           \* the checkpoint at the configured checkpoint path
    saved,          \* the last checkpoint written by torch.save, if any
    cfg_sigma,      \* config[...]["sigma_data"] as dumped at a save point
    pc,             \* position of main
    error,          \* the exception that ended the run, or "none"
    start_epoch, epoch, epochs, diff_epoch, joint_epoch,
    iters,
    optimizer,      \* MultiOptimizer: per unit, the number of step(unit) taken
    scheduler_params,
    running_std,    \* list of sigma estimates
    sigma_data,     \* model.diffusion.module.diffusion.sigma_data
    running_loss,
    i,              \* index of the training batch within the epoch
    ref,            \* the local "ref": <<>> while unbound, else <<epoch, i>>
    gt_width,       \* gt.size(-1) of the current batch (0: not cropped yet)
    outcome,        \* what became of the current training batch
    loss_sty, loss_diff, g_loss,
    d_loss_slm, loss_gen_lm,
    grad0,          \* p.grad right after loss_gen_lm.backward() in this batch
    grad,           \* p.grad along the adversarial stage of this batch
    ops,            \* the gradient operations of the current training batch
    pre,            \* the training state when the current batch was fetched
    j, iters_test, loss_test,
    best_loss

vars ==
    <<run, config, disk, saved, cfg_sigma, pc, error, start_epoch, epoch,
      epochs, diff_epoch, joint_epoch, iters, optimizer, scheduler_params,
      running_std, sigma_data, running_loss, i, ref, gt_width, outcome,
      loss_sty, loss_diff, g_loss, d_loss_slm, loss_gen_lm, grad0, grad, ops,
      pre, j, iters_test, loss_test, best_loss>>

\* the variables of one run of main
locals ==
    <<start_epoch, epoch, epochs, diff_epoch, joint_epoch, iters, optimizer,
      scheduler_params, running_std, sigma_data, running_loss, i, ref,
      gt_width, outcome, loss_sty, loss_diff, g_loss, d_loss_slm, loss_gen_lm,
      grad0, grad, ops, pre, j, iters_test, loss_test, best_loss>>

NoCheckpoint == [present |-> FALSE]

\* a checkpoint left by an earlier training of e + 1 epochs
CheckpointOfEpoch(e) ==
    [present |-> TRUE, epoch |-> e, iters |-> (e + 1) * NumBatches,
     optimizer |-> [u \in Units |-> (e + 1) * NumBatches]]

\* configured diff_epoch and joint_epoch: from the first epoch on, or from
\* the second
EpochThresholds == {0, 1}

\* slmadv_params.thresh and slmadv_params.scale
Threshes == {1, 5}
Scales == {<<1, 100>>, <<2, 1>>}

BaseConfig ==
    [mode |-> "first_stage", load_only_params |-> TRUE, diff_epoch |-> 1,
     joint_epoch |-> 1, save_freq |-> 1, multispeaker |-> TRUE,
     estimate_sigma_data |-> TRUE, thresh |-> 5, scale |-> <<1, 100>>]

\* the curriculum: every order of the two thresholds, multi-speaker with
\* sigma estimation, and single-speaker with it (saving every second epoch)
\* and without it
CurriculumConfigs ==
    {[BaseConfig EXCEPT !.diff_epoch = t[1], !.joint_epoch = t[2],
                        !.multispeaker = t[3][1],
                        !.estimate_sigma_data = t[3][2],
                        !.save_freq = t[3][3]] :
        t \in EpochThresholds \X EpochThresholds
              \X {<<TRUE, TRUE, 1>>, <<FALSE, TRUE, 2>>, <<FALSE, FALSE, 1>>}}

\* the ways to start: from a first-stage checkpoint, from a pretrained model
\* with and without its optimizer state, or with no checkpoint path
StartupConfigs ==
    {[BaseConfig EXCEPT !.mode = m[1], !.load_only_params = m[2]] :
        m \in {<<"first_stage", TRUE>>, <<"pretrained", TRUE>>,
               <<"pretrained", FALSE>>, <<"missing", TRUE>>}}

\* the thresholds and factors of the gradient surgery, in a single-speaker
\* run whose adversarial stage is active from the first epoch
SurgeryConfigs ==
    {[BaseConfig EXCEPT !.diff_epoch = 1, !.joint_epoch = 0,
                        !.multispeaker = FALSE, !.estimate_sigma_data = FALSE,
                        !.thresh = t[1], !.scale = t[2]] :
        t \in Threshes \X Scales}

\* a first-stage checkpoint of epoch 5 with diff_epoch 10 and joint_epoch 12
ScenarioInputs ==
    {<<[BaseConfig EXCEPT !.diff_epoch = 10, !.joint_epoch = 12],
       CheckpointOfEpoch(5)>>}

\* the configurations and the checkpoint each finds on disk
Inputs ==
    (CurriculumConfigs \X {CheckpointOfEpoch(0)})
    \cup (StartupConfigs \X {CheckpointOfEpoch(e) : e \in 0..MaxStart})
    \cup (SurgeryConfigs \X {CheckpointOfEpoch(0)})
    \cup ScenarioInputs

\* the training state a skipped batch is compared with
FreshSnapshot ==
    [running_std |-> <<>>, sigma_data |-> 0, optimizer |-> [u \in Units |-> 0],
     iters |-> 0, running_loss |-> 0, i |-> 0]

\* lines 80-81, 181-182, 191 and the locals not yet bound
FreshLocals ==
    /\ start_epoch = 0
    /\ epoch = 0
    /\ epochs = Epochs
    /\ diff_epoch = config.diff_epoch
    /\ joint_epoch = config.joint_epoch
    /\ iters = 0
    /\ optimizer = [u \in Units |-> 0]
    /\ scheduler_params = [epochs |-> 0, steps_per_epoch |-> 0]
    /\ running_std = <<>>
    /\ sigma_data = 0
    /\ running_loss = 0
    /\ i = 0
    /\ ref = <<>>
    /\ gt_width = 0
    /\ outcome = "none"
    /\ loss_sty = 0
    /\ loss_diff = 0
    /\ g_loss = <<>>
    /\ d_loss_slm = 0
    /\ loss_gen_lm = 0
    /\ grad0 = NoGrads
    /\ grad = NoGrads
    /\ ops = <<>>
    /\ pre = FreshSnapshot
    /\ j = 0
    /\ iters_test = 0
    /\ loss_test = 0
    /\ best_loss = <<1, 0>>

\* the same locals, for the process started by a new run
ResetLocals ==
    /\ start_epoch' = 0
    /\ epoch' = 0
    /\ epochs' = Epochs
    /\ diff_epoch' = config'.diff_epoch
    /\ joint_epoch' = config'.joint_epoch
    /\ iters' = 0
    /\ optimizer' = [u \in Units |-> 0]
    /\ scheduler_params' = [epochs |-> 0, steps_per_epoch |-> 0]
    /\ running_std' = <<>>
    /\ sigma_data' = 0
    /\ running_loss' = 0
    /\ i' = 0
    /\ ref' = <<>>
    /\ gt_width' = 0
    /\ outcome' = "none"
    /\ loss_sty' = 0
    /\ loss_diff' = 0
    /\ g_loss' = <<>>
    /\ d_loss_slm' = 0
    /\ loss_gen_lm' = 0
    /\ grad0' = NoGrads
    /\ grad' = NoGrads
    /\ ops' = <<>>
    /\ pre' = FreshSnapshot
    /\ j' = 0
    /\ iters_test' = 0
    /\ loss_test' = 0
    /\ best_loss' = <<1, 0>>

(***************************************************************************)
(* Startup: lines 80-117 and 136-182.                                      *)
(***************************************************************************)
\* load_checkpoint(model, optimizer, path, load_only_params): restores the
\* unit weights, and the optimizer state unless load_only_params; returns
\* the epoch and the iteration counter of the checkpoint
LoadCheckpoint(ckpt, opt, load_only_params) ==
    [start_epoch |-> ckpt.epoch, iters |-> ckpt.iters,
     optimizer |-> IF load_only_params THEN opt ELSE ckpt.optimizer]

\* no offset
NotOffset(v, s) == v

\* "diff_epoch += start_epoch", "joint_epoch += start_epoch",
\* "epochs += start_epoch"
OffsetBy(v, s) == v + s

\* the loop entered with the counter of the checkpoint
ItersFromCheckpoint(loaded) == loaded

\* "iters = 0" of line 182, which follows both load_checkpoint calls
ItersAtLoopStart(loaded) == 0

Startup ==
    /\ pc = "start"
    /\ IF config.mode = "missing"
       THEN \* raise ValueError("You need to specify the path ...")
            /\ pc' = "crashed"
            /\ error' = "ValueError"
            /\ UNCHANGED <<run, config, disk, saved, cfg_sigma, locals>>
       ELSE LET load_pretrained == config.mode = "pretrained"
                fresh == [u \in Units |-> 0]
                first == LoadCheckpoint(disk, fresh, TRUE)
                s1 == IF load_pretrained THEN 0 ELSE first.start_epoch
                de == IF load_pretrained THEN config.diff_epoch
                      ELSE OffsetBy(config.diff_epoch, s1)
                je == IF load_pretrained THEN config.joint_epoch
                      ELSE OffsetBy(config.joint_epoch, s1)
                ep == IF load_pretrained THEN Epochs ELSE OffsetBy(Epochs, s1)
                second == LoadCheckpoint(disk, fresh, config.load_only_params)
                s2 == IF load_pretrained THEN second.start_epoch ELSE s1
                it == IF load_pretrained THEN second.iters ELSE first.iters
            IN  /\ diff_epoch' = de
                /\ joint_epoch' = je
                /\ epochs' = ep
                /\ scheduler_params' =
                       [epochs |-> ep, steps_per_epoch |-> NumBatches]
                /\ optimizer' =
                       IF load_pretrained THEN second.optimizer ELSE fresh
                /\ start_epoch' = s2
                /\ iters' = ItersAtLoopStart(it)
                /\ epoch' = s2
                /\ pc' = "epoch"
                /\ UNCHANGED <<run, config, disk, saved, cfg_sigma, error,
                               running_std, sigma_data, running_loss, i, ref,
                               gt_width, outcome, loss_sty, loss_diff, g_loss,
                               d_loss_slm, loss_gen_lm, grad0, grad, ops, pre,
                               j, iters_test, loss_test, best_loss>>

\* "for epoch in range(start_epoch, epochs)": lines 205-218
EpochBegin ==
    /\ pc = "epoch"
    /\ IF epoch < epochs
       THEN /\ running_loss' = 0
            /\ i' = 0
            /\ pc' = "batch"
       ELSE /\ pc' = "done"
            /\ UNCHANGED <<running_loss, i>>
    /\ UNCHANGED <<run, config, disk, saved, cfg_sigma, error, start_epoch,
                   epoch, epochs, diff_epoch, joint_epoch, iters, optimizer,
                   scheduler_params, running_std, sigma_data, ref, gt_width,
                   outcome, loss_sty, loss_diff, g_loss, d_loss_slm,
                   loss_gen_lm, grad0, grad, ops, pre, j, iters_test,
                   loss_test, best_loss>>

(***************************************************************************)
(* One training batch: lines 220-585.                                      *)
(***************************************************************************)
env == <<run, config, disk, saved, cfg_sigma, error>>
curriculum ==
    <<start_epoch, epoch, epochs, diff_epoch, joint_epoch, scheduler_params>>
valvars == <<j, iters_test, loss_test, best_loss>>
lossvars == <<loss_sty, loss_diff, g_loss>>
slmvars == <<d_loss_slm, loss_gen_lm>>

\* line 237: "if multispeaker and epoch >= diff_epoch"
RefActive(ms, e, de) == ms /\ e >= de
\* the denoiser one epoch early
DenoiserActiveEarly(e, de) == e + 1 >= de

\* line 286: "if epoch >= diff_epoch"
DenoiserActive(e, de) == e >= de
\* line 463: "if epoch >= diff_epoch"
DiffusionStepActive(e, de) == e >= de
\* the adversarial stage one epoch early
AdvActiveEarly(e, je) == e + 1 >= je

\* line 467: "if epoch >= joint_epoch"
AdvActive(e, je) == e >= je

\* the values F.l1_loss and the EDM loss take when they are evaluated
StyLosses == {2}
DiffLosses == {3}

Snapshot ==
    [running_std |-> running_std, sigma_data |-> sigma_data,
     optimizer |-> optimizer, iters |-> iters, running_loss |-> running_loss,
     i |-> i]

\* optimizer.step(key)
Step(opt, key) == [opt EXCEPT ![key] = @ + 1]

\* the calls optimizer.step(key) for the keys in order
StepOps(keys) == [k \in 1..Len(keys) |-> <<"step", keys[k]>>]

\* the MultiOptimizer after a sequence of calls: each step(key) is applied
RECURSIVE Apply(_, _)
Apply(opt, calls) ==
    IF calls = <<>> THEN opt
    ELSE Apply(IF Head(calls)[1] = "step" THEN Step(opt, Head(calls)[2])
               ELSE opt,
               Tail(calls))

\* a floor two columns lower
TooNarrowLowerFloor(width) == width < MinWidth - 2

\* line 368: "if gt.size(-1) < 80"
TooNarrow(width) == width < MinWidth

\* lines 220-369: fetch the batch, the reference styles, the aligner, the
\* denoiser losses and the crop; "continue" on an aligner exception or on a
\* crop narrower than the floor
TrainForward ==
    /\ pc = "batch"
    /\ i < NumBatches
    /\ \E raises \in BOOLEAN, minlen \in MelLens,
          sty \in StyLosses, dif \in DiffLosses :
        LET width == CropWidth(minlen)
            sigma == SigmaOf(epoch)
            active == DenoiserActive(epoch, diff_epoch)
            estimate == active /\ config.estimate_sigma_data
        IN  /\ pre' = Snapshot
            /\ ref' = IF RefActive(config.multispeaker, epoch, diff_epoch)
                      THEN <<epoch, i>> ELSE ref
            /\ IF raises
               THEN /\ outcome' = "aligner_raised"
                    /\ ops' = <<>>
                    /\ gt_width' = 0
                    /\ i' = i + 1
                    /\ pc' = "batch"
                    /\ UNCHANGED <<sigma_data, running_std, loss_sty, loss_diff>>
               ELSE /\ sigma_data' = IF estimate THEN sigma ELSE sigma_data
                    /\ running_std' = IF estimate THEN Append(running_std, sigma)
                                      ELSE running_std
                    /\ loss_sty' = IF active THEN sty ELSE 0
                    /\ loss_diff' = IF active THEN dif ELSE 0
                    /\ ops' = IF active
                              THEN <<<<"forward", "sampler">>,
                                     <<"forward", "diffusion_loss">>>>
                              ELSE <<>>
                    /\ gt_width' = width
                    /\ IF TooNarrow(width)
                       THEN /\ outcome' = "too_narrow"
                            /\ i' = i + 1
                            /\ pc' = "batch"
                       ELSE /\ outcome' = "forwarded"
                            /\ i' = i
                            /\ pc' = "disc"
    /\ grad0' = NoGrads
    /\ grad' = NoGrads
    /\ UNCHANGED <<env, curriculum, valvars, slmvars, iters, optimizer,
                   running_loss, g_loss>>

\* lines 392-396: the gradient operations of the discriminator phase
DiscCalls ==
    <<<<"zero_grad", "all">>, <<"backward", "d_loss">>>>
    \o StepOps(<<"msd", "mpd">>)

DiscPhase ==
    /\ pc = "disc"
    /\ ops' = ops \o DiscCalls
    /\ optimizer' = Apply(optimizer, DiscCalls)
    /\ pc' = "gen"
    /\ UNCHANGED <<env, curriculum, valvars, slmvars, lossvars, iters,
                   running_std, sigma_data, running_loss, i, ref, gt_width,
                   outcome, pre, grad0, grad>>

\* loss_params.lambda_*
Lambda(term) ==
    CASE term = "mel" -> 5
      [] term = "ce" -> 20
      [] OTHER -> 1

\* lines 436-448: the weighted terms of g_loss; the losses other than
\* loss_sty and loss_diff are 1 each
GLoss(sty, dif) ==
    LET val(t) == CASE t = "sty" -> sty [] t = "diff" -> dif [] OTHER -> 1
        terms == <<"mel", "F0", "ce", "norm", "dur", "gen", "slm", "sty",
                   "diff", "mono", "s2s">>
    IN  [k \in 1..Len(terms) |-> <<terms[k], Lambda(terms[k]) * val(terms[k])>>]

\* the generator phase stepping diffusion at every epoch
GenUnitsAlwaysDiffusion(e, de) ==
    <<"bert_encoder", "bert", "predictor", "predictor_encoder",
      "style_encoder", "decoder", "text_encoder", "text_aligner", "diffusion">>

\* the units stepped after g_loss.backward(): lines 453-464
GenUnits(e, de) ==
    <<"bert_encoder", "bert", "predictor", "predictor_encoder",
      "style_encoder", "decoder", "text_encoder", "text_aligner">>
    \o (IF DiffusionStepActive(e, de) THEN <<"diffusion">> ELSE <<>>)

\* the generator phase without its zero_grad
GenCallsNoZeroGrad(e, de) ==
    <<<<"backward", "g_loss">>>> \o StepOps(GenUnits(e, de))

\* lines 399-464: the gradient operations of the generator phase
GenCalls(e, de) ==
    <<<<"zero_grad", "all">>, <<"backward", "g_loss">>>>
    \o StepOps(GenUnits(e, de))

GenPhase ==
    /\ pc = "gen"
    /\ g_loss' = GLoss(loss_sty, loss_diff)
    /\ running_loss' = running_loss + 1
    /\ ops' = ops \o GenCalls(epoch, diff_epoch)
    /\ optimizer' = Apply(optimizer, GenCalls(epoch, diff_epoch))
    /\ pc' = "adv"
    /\ UNCHANGED <<env, curriculum, valvars, slmvars, loss_sty, loss_diff,
                   iters, running_std, sigma_data, i, ref, gt_width, outcome,
                   pre, grad0, grad>>

\* lines 478-496: slmadv returned a value
SlmBackwardCalls ==
    <<<<"call", "slmadv">>, <<"zero_grad", "all">>,
      <<"backward", "loss_gen_lm">>>>

\* lines 466-496: the adversarial stage up to loss_gen_lm.backward().
\* slmadv returns None or (d_loss_slm, loss_gen_lm, y_pred); reading the
\* local "ref" while it is unbound raises UnboundLocalError
AdvStage ==
    /\ pc = "adv"
    /\ IF ~AdvActive(epoch, joint_epoch)
       THEN /\ d_loss_slm' = 0
            /\ loss_gen_lm' = 0
            /\ pc' = "end_step"
            /\ UNCHANGED <<ops, grad0, grad, error>>
       ELSE IF config.multispeaker /\ ref = <<>>
       THEN /\ d_loss_slm' = 0
            /\ loss_gen_lm' = 0
            /\ pc' = "crashed"
            /\ error' = "UnboundLocalError"
            /\ UNCHANGED <<ops, grad0, grad>>
       ELSE \E returns \in BOOLEAN, d \in {0, 1}, g \in GradCases :
            IF ~returns
            THEN /\ d_loss_slm' = 0
                 /\ loss_gen_lm' = 0
                 /\ ops' = Append(ops, <<"call", "slmadv">>)
                 /\ pc' = "end_step"
                 /\ UNCHANGED <<grad0, grad, error>>
            ELSE /\ d_loss_slm' = d
                 /\ loss_gen_lm' = 1
                 /\ ops' = ops \o SlmBackwardCalls
                 /\ grad0' = g
                 /\ grad' = g
                 /\ pc' = "adv_scale"
                 /\ UNCHANGED error
    /\ UNCHANGED <<run, config, disk, saved, cfg_sigma, curriculum, valvars,
                   lossvars, iters, optimizer, running_std, sigma_data,
                   running_loss, i, ref, gt_width, outcome, pre>>

\* lines 498-517: the per-unit gradient norms and the gradient scaling
ScaleCalls(g, thresh) ==
    <<<<"surgery", "norm">>>>
    \o (IF RescaleFires(g, thresh) THEN <<<<"surgery", "rescale">>>> ELSE <<>>)

AdvScale ==
    /\ pc = "adv_scale"
    /\ grad' = GradScaling(grad, config.thresh)
    /\ ops' = ops \o ScaleCalls(grad, config.thresh)
    /\ pc' = "adv_amplify"
    /\ UNCHANGED <<env, curriculum, valvars, slmvars, lossvars, iters,
                   optimizer, running_std, sigma_data, running_loss, i, ref,
                   gt_width, outcome, pre, grad0>>

\* lines 519-529: the targeted amplification
AdvAmplify ==
    /\ pc = "adv_amplify"
    /\ grad' = GradAmplify(grad, config.scale)
    /\ ops' = Append(ops, <<"surgery", "amplify">>)
    /\ pc' = "adv_step"
    /\ UNCHANGED <<env, curriculum, valvars, slmvars, lossvars, iters,
                   optimizer, running_std, sigma_data, running_loss, i, ref,
                   gt_width, outcome, pre, grad0>>

\* the adversarial stage leaving diffusion out
SlmUnitsWithoutDiffusion == <<"bert_encoder", "bert", "predictor">>

\* the units stepped after the gradient surgery: lines 531-534
SlmUnits == <<"bert_encoder", "bert", "predictor", "diffusion">>

AdvStep ==
    /\ pc = "adv_step"
    /\ optimizer' = Apply(optimizer, StepOps(SlmUnits))
    /\ ops' = ops \o StepOps(SlmUnits)
    /\ pc' = "adv_disc"
    /\ UNCHANGED <<env, curriculum, valvars, slmvars, lossvars, iters,
                   running_std, sigma_data, running_loss, i, ref, gt_width,
                   outcome, pre, grad0, grad>>

\* lines 536-540: the SLM discriminator
SlmDiscCalls(d) ==
    IF d # 0
    THEN <<<<"zero_grad", "all">>, <<"backward", "d_loss_slm">>,
           <<"step", "wd">>>>
    ELSE <<>>

AdvDisc ==
    /\ pc = "adv_disc"
    /\ IF d_loss_slm # 0
       THEN /\ ops' = ops \o SlmDiscCalls(d_loss_slm)
            /\ optimizer' = Apply(optimizer, SlmDiscCalls(d_loss_slm))
            /\ grad' = NoGrads
       ELSE UNCHANGED <<ops, optimizer, grad>>
    /\ pc' = "end_step"
    /\ UNCHANGED <<env, curriculum, valvars, slmvars, lossvars, iters,
                   running_std, sigma_data, running_loss, i, ref, gt_width,
                   outcome, pre, grad0>>

\* lines 542-585: count the iteration, log every log_interval batches
EndStep ==
    /\ pc = "end_step"
    /\ iters' = iters + 1
    /\ running_loss' = IF (i + 1) % LogInterval = 0 THEN 0 ELSE running_loss
    /\ outcome' = "stepped"
    /\ i' = i + 1
    /\ pc' = "batch"
    /\ UNCHANGED <<env, curriculum, valvars, slmvars, lossvars, optimizer,
                   running_std, sigma_data, ref, gt_width, pre, grad0, grad,
                   ops>>

Init ==
    /\ run = 1
    /\ \E inp \in Inputs :
        /\ config = inp[1]
        /\ disk = inp[2]
    /\ saved = NoCheckpoint
    /\ cfg_sigma = <<0, 1>>
    /\ pc = "start"
    /\ error = "none"
    /\ FreshLocals

(***************************************************************************)
(* End of the epoch: validation, report, save.  Lines 587-757.             *)
(***************************************************************************)
trainvars ==
    <<iters, optimizer, running_std, sigma_data, running_loss, i, ref,
      gt_width, outcome, pre, grad0, grad, ops>>

\* lines 587-593: the training loader is exhausted
BeginValidation ==
    /\ pc = "batch"
    /\ i >= NumBatches
    /\ loss_test' = 0
    /\ iters_test' = 0
    /\ j' = 0
    /\ pc' = "val"
    \* no training batch is current any more
    /\ ops' = <<>>
    /\ pre' = Snapshot
    /\ outcome' = "none"
    /\ gt_width' = 0
    /\ grad0' = NoGrads
    /\ grad' = NoGrads
    /\ UNCHANGED <<env, curriculum, slmvars, lossvars, best_loss, iters,
                   optimizer, running_std, sigma_data, running_loss, i, ref>>

\* lines 594-721: one validation batch; an exception in the forward drops it
ValBatch ==
    /\ pc = "val"
    /\ j < NumValBatches
    /\ \E raises \in BOOLEAN :
        IF raises
        THEN UNCHANGED <<loss_test, iters_test>>
        ELSE /\ loss_test' = loss_test + 1
             /\ iters_test' = iters_test + 1
    /\ j' = j + 1
    /\ UNCHANGED <<env, curriculum, slmvars, lossvars, trainvars, best_loss,
                   pc>>

\* lines 723-732: "loss_test / iters_test" with loss_test the int 0 and
\* iters_test 0 raises ZeroDivisionError
Report ==
    /\ pc = "val"
    /\ j >= NumValBatches
    /\ IF iters_test = 0
       THEN /\ pc' = "crashed"
            /\ error' = "ZeroDivisionError"
       ELSE /\ pc' = "save"
            /\ UNCHANGED error
    /\ UNCHANGED <<run, config, disk, saved, cfg_sigma, curriculum, slmvars,
                   lossvars, trainvars, valvars>>

RECURSIVE SumSeq(_)
SumSeq(q) == IF q = <<>> THEN 0 ELSE Head(q) + SumSeq(Tail(q))

\* float(np.mean(running_std)): nan, written <<0, 0>>, on an empty list
Mean(q) == IF q = <<>> THEN <<0, 0>> ELSE Rat(SumSeq(q), Len(q))

\* line 734: "if (epoch + 1) % save_freq == 0"
SavePoint(e, save_freq) == (e + 1) % save_freq = 0

\* lines 734-757, and the step of the epoch loop
Save ==
    /\ pc = "save"
    /\ IF SavePoint(epoch, config.save_freq)
       THEN LET val_loss == Rat(loss_test, iters_test)
            IN  /\ best_loss' = IF best_loss[2] = 0 \/ RGreater(best_loss, val_loss)
                                THEN val_loss ELSE best_loss
                /\ saved' = [present |-> TRUE, epoch |-> epoch, iters |-> iters,
                             optimizer |-> optimizer]
                /\ cfg_sigma' = IF config.estimate_sigma_data
                                THEN Mean(running_std) ELSE cfg_sigma
       ELSE UNCHANGED <<best_loss, saved, cfg_sigma>>
    /\ epoch' = epoch + 1
    /\ pc' = "epoch"
    /\ UNCHANGED <<run, config, disk, error, start_epoch, epochs, diff_epoch,
                   joint_epoch, scheduler_params, slmvars, lossvars, trainvars,
                   j, iters_test, loss_test>>

(***************************************************************************)
(* A new run of the script, resuming from the checkpoint the last run      *)
(* saved: pretrained_model names it and second_stage_load_pretrained is    *)
(* set.                                                                    *)
(***************************************************************************)
Restart ==
    /\ pc \in {"done", "crashed"}
    /\ run < MaxRuns
    /\ saved.present
    /\ run' = run + 1
    /\ \E only \in BOOLEAN :
        config' = [config EXCEPT !.mode = "pretrained",
                                 !.load_only_params = only]
    /\ disk' = saved
    /\ pc' = "start"
    /\ error' = "none"
    /\ ResetLocals
    /\ UNCHANGED <<saved, cfg_sigma>>

Next ==
    \/ Startup
    \/ EpochBegin
    \/ TrainForward
    \/ DiscPhase
    \/ GenPhase
    \/ AdvStage
    \/ AdvScale
    \/ AdvAmplify
    \/ AdvStep
    \/ AdvDisc
    \/ EndStep
    \/ BeginValidation
    \/ ValBatch
    \/ Report
    \/ Save

\* one run of the script
Spec == Init /\ [][Next]_vars

\* a run, and the runs that resume from the checkpoints it saved
InitResume ==
    /\ Init
    /\ config \in StartupConfigs

NextResume ==
    \/ Next
    \/ Restart

SpecResume == InitResume /\ [][NextResume]_vars

(***************************************************************************)
(* The properties.                                                         *)
(***************************************************************************)
\* the current training batch was skipped by a "continue"
Skipped == outcome \in {"aligner_raised", "too_narrow"}

\* the indices of the calls of a kind in the log of the current batch
CallsOf(kinds) == {n \in 1..Len(ops) : ops[n][1] \in kinds}

Called(call) == \E n \in 1..Len(ops) : ops[n] = call

GradientKinds == {"zero_grad", "backward", "surgery", "step"}

\* C1: a run resumed with load_only_params = false from the checkpoint the
\* run before it saved enters its epoch loop with the iteration counter and
\* the optimizer state of that checkpoint.
C1_ResumedRunStartsAtSavedIters ==
    (/\ run > 1
     /\ config.mode = "pretrained"
     /\ ~config.load_only_params
     /\ pc = "epoch"
     /\ epoch = start_epoch)
    => (iters = disk.iters /\ optimizer = disk.optimizer)

\* C2: in the adversarial stage, when the predictor norm exceeds thresh every
\* gradient is multiplied by thresh / predictor_norm, so that with
\* predictor_norm = 2 * thresh every unit's norm is halved; otherwise no
\* gradient is rescaled.
C2_RescaleByThreshOverNorm ==
    pc = "adv_amplify" =>
        LET norm == TotalNorm(grad0, "predictor")
            thresh == RInt(config.thresh)
        IN  /\ RGreater(norm, thresh) =>
                \A p \in Params :
                    grad[p] = IF grad0[p] = NoneGrad THEN NoneGrad
                              ELSE RMul(grad0[p], RMul(thresh, RInv(norm)))
            /\ norm = RMul(RInt(2), thresh) =>
                \A u \in Units :
                    RMul(RInt(2), TotalNorm(grad, u)) = TotalNorm(grad0, u)
            /\ ~RGreater(norm, thresh) => grad = grad0

\* C3: a batch skipped because the aligner raised or because the crop is
\* narrower than 80 runs no zero_grad, no backward and no optimizer step,
\* leaves iters alone, and the loop is at the next batch; and every batch
\* whose crop is narrower than 80 is skipped.
C3_SkippedBatchCommitsNothing ==
    /\ Skipped =>
        /\ CallsOf(GradientKinds) = {}
        /\ iters = pre.iters
        /\ optimizer = pre.optimizer
        /\ pc = "batch"
        /\ i = pre.i + 1
    /\ (gt_width # 0 /\ gt_width < MinWidth) => outcome = "too_narrow"

\* a batch of crop width 78 is skipped after earlier batches were stepped
C3_Witness ==
    /\ outcome = "too_narrow"
    /\ gt_width = 78
    /\ pre.iters > 0
    /\ epoch >= diff_epoch

\* C4: a skipped batch leaves the sigma estimates, sigma_data, the unit
\* parameters and optimizer state, iters and running_loss as they were when
\* the batch was fetched, at every epoch.
C4_SkipLeavesTrainingStateUntouched ==
    Skipped =>
        /\ running_std = pre.running_std
        /\ sigma_data = pre.sigma_data
        /\ optimizer = pre.optimizer
        /\ iters = pre.iters
        /\ running_loss = pre.running_loss

\* g_loss holds the weighted term of a loss with this value
HasTerm(name, v) == \E k \in 1..Len(g_loss) : g_loss[k] = <<name, v>>

\* the positions of main after g_loss is built
AfterGen == {"adv", "adv_scale", "adv_amplify", "adv_step", "adv_disc", "end_step"}

\* C5: in every training step at an epoch < diff_epoch (the offset
\* threshold) loss_sty and loss_diff are 0, the style sampler and the
\* diffusion loss are not evaluated, no sigma estimate is appended, and the
\* two weighted terms are in g_loss with value 0.
C5_InertBeforeDiffEpoch ==
    (outcome \in {"forwarded", "too_narrow", "stepped"} /\ epoch < diff_epoch) =>
        /\ loss_sty = 0
        /\ loss_diff = 0
        /\ ~Called(<<"forward", "sampler">>)
        /\ ~Called(<<"forward", "diffusion_loss">>)
        /\ running_std = pre.running_std
        /\ sigma_data = pre.sigma_data
        /\ (pc \in AfterGen \/ outcome = "stepped") =>
               (HasTerm("sty", 0) /\ HasTerm("diff", 0))

\* a step below diff_epoch has built g_loss with the two terms at 0
C5_Witness ==
    /\ pc = "end_step"
    /\ epoch < diff_epoch
    /\ HasTerm("sty", 0)
    /\ HasTerm("diff", 0)
    /\ HasTerm("mel", 5)

StepsOf(u) == Cardinality({n \in 1..Len(ops) : ops[n] = <<"step", u>>})

\* C6: at every epoch < joint_epoch the adversarial stage is not invoked:
\* no slmadv call, no gradient surgery, no second step of bert_encoder,
\* bert, predictor or diffusion, no step of wd, and d_loss_slm and
\* loss_gen_lm are 0.
C6_NoAdversarialStageBeforeJointEpoch ==
    epoch < joint_epoch =>
        /\ d_loss_slm = 0
        /\ loss_gen_lm = 0
        /\ ~Called(<<"call", "slmadv">>)
        /\ CallsOf({"surgery"}) = {}
        /\ ~Called(<<"step", "wd">>)
        /\ ~Called(<<"backward", "loss_gen_lm">>)
        /\ ~Called(<<"backward", "d_loss_slm">>)
        /\ \A u \in {"bert_encoder", "bert", "predictor", "diffusion"} :
               StepsOf(u) <= 1
        /\ grad = NoGrads
        /\ pc \notin {"adv_scale", "adv_amplify", "adv_step", "adv_disc"}

\* a step between diff_epoch and joint_epoch has ended
C6_Witness ==
    /\ outcome = "stepped"
    /\ diff_epoch <= epoch
    /\ epoch < joint_epoch
    /\ StepsOf("diffusion") = 1
    /\ StepsOf("predictor") = 1

\* the factor of the global rescale: 1 when it does not fire
FactorOf(g, thresh) ==
    LET norm == TotalNorm(g, "predictor")
    IN  IF RGreater(norm, RInt(thresh)) THEN RInv(norm) ELSE RInt(1)

FirstIndex(call) == CHOOSE n \in 1..Len(ops) : ops[n] = call

\* C7: once the gradient surgery of an adversarial step is done, the
\* gradient of every parameter of predictor.duration_proj, predictor.lstm
\* and diffusion is its original gradient x rescale factor x scale, and the
\* gradient of every other parameter is its original gradient x rescale
\* factor, whether or not the rescale fired; the amplification follows the
\* rescale.
C7_AmplifyComposesWithRescale ==
    pc \in {"adv_step", "adv_disc"} =>
        LET f == FactorOf(grad0, config.thresh)
        IN  /\ \A p \in Params :
                   grad[p] =
                       IF grad0[p] = NoneGrad THEN NoneGrad
                       ELSE IF p \in {"predictor.duration_proj", "predictor.lstm",
                                      "diffusion.diffusion"}
                       THEN RMul(RMul(grad0[p], f), config.scale)
                       ELSE RMul(grad0[p], f)
            /\ Called(<<"surgery", "amplify">>)
            /\ FirstIndex(<<"surgery", "norm">>) < FirstIndex(<<"surgery", "amplify">>)
            /\ Called(<<"surgery", "rescale">>) =>
                   FirstIndex(<<"surgery", "rescale">>)
                       < FirstIndex(<<"surgery", "amplify">>)

\* the surgery is done on gradients that the rescale has divided by 10 and
\* the scale then doubled
C7_Witness ==
    /\ pc = "adv_step"
    /\ Called(<<"surgery", "rescale">>)
    /\ config.scale = <<2, 1>>
    /\ grad0["predictor.lstm"] = <<-8, 1>>
    /\ grad["predictor.lstm"] = <<-8, 5>>
    /\ grad["bert.encoder"] = <<-2, 5>>

\* C8: started from a first-stage checkpoint of epoch S, the run has
\* diff_epoch, joint_epoch and epochs at the configured value plus S from the
\* startup on and at every later point, and the epoch loop runs over
\* S .. epochs + S - 1.
C8_ThresholdsOffsetOnceAtStartup ==
    (config.mode = "first_stage" /\ pc # "start") =>
        LET S == disk.epoch
        IN  /\ start_epoch = S
            /\ diff_epoch = config.diff_epoch + S
            /\ joint_epoch = config.joint_epoch + S
            /\ epochs = Epochs + S
            /\ S <= epoch
            /\ epoch <= Epochs + S
            /\ pc = "done" => epoch = Epochs + S
            /\ pc \notin {"epoch", "done"} => epoch < Epochs + S

\* diff_epoch 10 and start epoch 5: the run has ended with diff_epoch 15
C8_Witness ==
    /\ config.mode = "first_stage"
    /\ config.diff_epoch = 10
    /\ start_epoch = 5
    /\ diff_epoch = 15
    /\ pc = "done"
    /\ iters > 0

\* C9: whatever validation batches raise, all of them included, the
\* validation pass and the end-of-epoch report end without an error.
C9_ValidationFailuresContained ==
    ~(pc = "crashed" /\ error = "ZeroDivisionError")

\* the gradient operations of the current batch, in order
GradOps == SelectSeq(ops, LAMBDA o : o[1] \in GradientKinds)

Rank(loss) ==
    CASE loss = "none" -> 0
      [] loss = "d_loss" -> 1
      [] loss = "g_loss" -> 2
      [] loss = "loss_gen_lm" -> 3
      [] OTHER -> 4

GroupUnits(loss) ==
    CASE loss = "d_loss" -> {"msd", "mpd"}
      [] loss = "g_loss" ->
            {"bert_encoder", "bert", "predictor", "predictor_encoder",
             "style_encoder", "decoder", "text_encoder", "text_aligner",
             "diffusion"}
      [] loss = "loss_gen_lm" -> {"bert_encoder", "bert", "predictor", "diffusion"}
      [] OTHER -> {"wd"}

\* One pass over the gradient operations q from position n on.  st is where
\* the current group stands ("idle" before the first group, "zeroed" after
\* its zero_grad, "backed" after its backward and during the surgery,
\* "stepping" once a unit of the group is stepped); loss is the loss of the
\* group's backward.
RECURSIVE Grouped(_, _, _, _)
Grouped(q, n, st, loss) ==
    IF n > Len(q) THEN st # "zeroed"
    ELSE CASE q[n][1] = "zero_grad" ->
                  /\ st # "zeroed"
                  /\ Grouped(q, n + 1, "zeroed", loss)
           [] q[n][1] = "backward" ->
                  /\ st = "zeroed"
                  /\ Rank(loss) < Rank(q[n][2])
                  /\ Grouped(q, n + 1, "backed", q[n][2])
           [] q[n][1] = "surgery" ->
                  /\ st = "backed"
                  /\ loss = "loss_gen_lm"
                  /\ Grouped(q, n + 1, "backed", loss)
           [] OTHER ->
                  /\ st \in {"backed", "stepping"}
                  /\ q[n][2] \in GroupUnits(loss)
                  /\ Grouped(q, n + 1, "stepping", loss)

\* C10: once a training step has run its last gradient operation (or the
\* run has ended in it), its gradient operations form the groups
\* d_loss, g_loss, loss_gen_lm, d_loss_slm in that order, each one
\* zero_grad, then one backward, then (loss_gen_lm only) the gradient
\* surgery, then the steps of the group's units; every step is taken on
\* gradients of exactly the one backward that follows the last zero_grad.
C10_GroupsAreSequential ==
    /\ pc \in {"end_step", "crashed"} => Grouped(GradOps, 1, "idle", "none")
    /\ outcome = "stepped" =>
        /\ Called(<<"backward", "d_loss">>)
        /\ Called(<<"backward", "g_loss">>)
        /\ Called(<<"backward", "loss_gen_lm">>) =>
               (Called(<<"surgery", "amplify">>) /\ StepsOf("predictor") = 2)

\* a step in which all four groups ran
C10_Witness ==
    /\ outcome = "stepped"
    /\ Called(<<"backward", "d_loss">>)
    /\ Called(<<"backward", "g_loss">>)
    /\ Called(<<"backward", "loss_gen_lm">>)
    /\ Called(<<"backward", "d_loss_slm">>)
    /\ Called(<<"surgery", "rescale">>)

\* the index of the first backward after position b of the log, or one past
\* its end
NextBackward(b) ==
    LET later == {m \in (b + 1)..Len(ops) : ops[m][1] = "backward"}
    IN  IF later = {} THEN Len(ops) + 1
        ELSE CHOOSE m \in later : \A k \in later : m <= k

\* the positions of the optimizer steps taken on the backward of a loss
GroupSteps(loss) ==
    IF ~Called(<<"backward", loss>>) THEN {}
    ELSE LET b == FirstIndex(<<"backward", loss>>)
         IN  {n \in (b + 1)..(NextBackward(b) - 1) : ops[n][1] = "step"}

\* the steps on the backward of a loss are one step of each unit of us
StepsExactly(loss, us) ==
    /\ {ops[n][2] : n \in GroupSteps(loss)} = us
    /\ Cardinality(GroupSteps(loss)) = Cardinality(us)

\* a training step that passed the crop has run its last gradient operation,
\* or the run has ended in it
StepComplete == pc \in {"end_step", "crashed"} /\ outcome = "forwarded"

\* C11: in every training step that passed the crop, the discriminator phase
\* steps exactly msd and mpd; the generator phase steps exactly bert_encoder,
\* bert, predictor, predictor_encoder, style_encoder, decoder, text_encoder
\* and text_aligner, and diffusion if and only if epoch >= diff_epoch; wd is
\* stepped only on the backward of d_loss_slm, at an epoch >= joint_epoch.
C11_SelectiveSteppingByPhase ==
    StepComplete =>
        /\ StepsExactly("d_loss", {"msd", "mpd"})
        /\ StepsExactly("g_loss",
               {"bert_encoder", "bert", "predictor", "predictor_encoder",
                "style_encoder", "decoder", "text_encoder", "text_aligner"}
               \cup (IF epoch >= diff_epoch THEN {"diffusion"} ELSE {}))
        /\ \A n \in 1..Len(ops) :
               ops[n] = <<"step", "wd">> =>
                   (n \in GroupSteps("d_loss_slm") /\ epoch >= joint_epoch)

\* a step at an epoch >= diff_epoch whose generator phase stepped diffusion
\* and whose adversarial stage stepped wd
C11_Witness ==
    /\ pc = "end_step"
    /\ epoch >= diff_epoch
    /\ \E n \in GroupSteps("g_loss") : ops[n][2] = "diffusion"
    /\ \E n \in GroupSteps("d_loss_slm") : ops[n][2] = "wd"
    /\ Cardinality(GroupSteps("d_loss")) = 2

\* slmadv was called in the current training step
AdvInvoked == Called(<<"call", "slmadv">>)

\* the gradient operations of the adversarial stage in the log
AdvOps ==
    {n \in 1..Len(ops) :
        /\ n > FirstIndex(<<"call", "slmadv">>)
        /\ ops[n][1] \in GradientKinds}

\* C12: when slmadv returns a value, exactly bert_encoder, bert, predictor
\* and diffusion are stepped, after the gradient surgery, and wd is stepped,
\* after a zero_grad and the backward of d_loss_slm, if and only if
\* d_loss_slm is not 0; when slmadv returns None the adversarial stage runs
\* no zero_grad, backward, gradient surgery or step, d_loss_slm and
\* loss_gen_lm are 0, and the step adds one to iters.
C12_AdversarialInvocationEffects ==
    /\ (pc = "end_step" /\ AdvInvoked /\ loss_gen_lm # 0) =>
        /\ StepsExactly("loss_gen_lm",
               {"bert_encoder", "bert", "predictor", "diffusion"})
        /\ \A n \in GroupSteps("loss_gen_lm") :
               FirstIndex(<<"surgery", "amplify">>) < n
        /\ d_loss_slm # 0 <=> Called(<<"step", "wd">>)
        /\ d_loss_slm # 0 =>
               LET b == FirstIndex(<<"backward", "d_loss_slm">>)
               IN  /\ ops[b - 1][1] = "zero_grad"
                   /\ StepsExactly("d_loss_slm", {"wd"})
        /\ d_loss_slm = 0 => ~Called(<<"backward", "d_loss_slm">>)
    /\ (pc = "end_step" /\ AdvInvoked /\ loss_gen_lm = 0) =>
        /\ AdvOps = {}
        /\ d_loss_slm = 0
        /\ grad = NoGrads
    /\ (outcome = "stepped" /\ AdvInvoked) => iters = pre.iters + 1

\* a step whose adversarial stage got None from slmadv has been counted
C12_Witness ==
    /\ outcome = "stepped"
    /\ AdvInvoked
    /\ loss_gen_lm = 0
    /\ AdvOps = {}
    /\ iters = pre.iters + 1
    /\ pre.iters > 0

\* the index within the epoch of the current training batch
BatchIndex == IF outcome = "stepped" THEN i - 1 ELSE i

\* C13: whatever the order of diff_epoch and joint_epoch, when slmadv is
\* called in multi-speaker mode the local ref was computed from the current
\* batch, and no training step at an epoch < diff_epoch steps diffusion.
C13_AdversarialStageConsumesActiveState ==
    /\ (AdvInvoked /\ config.multispeaker) => ref = <<epoch, BatchIndex>>
    /\ (outcome \in {"forwarded", "stepped"} /\ epoch < diff_epoch) =>
           ~Called(<<"step", "diffusion">>)

\* C14: at every save point of a run with sigma estimation enabled the list
\* of sigma estimates is not empty, and the sigma_data written to the
\* persisted configuration is a number, the mean of the estimates.
C14_SigmaFoldBackOverNonEmptyHistory ==
    /\ (/\ pc = "save"
         /\ SavePoint(epoch, config.save_freq)
         /\ config.estimate_sigma_data) => running_std # <<>>
    /\ cfg_sigma # Mean(<<>>)

\* the step(u) calls of the current run: the steps the optimizer has counted,
\* less those of the optimizer state it was loaded with
StepsThisRun(u) ==
    optimizer[u]
    - (IF config.mode = "pretrained" /\ ~config.load_only_params
       THEN disk.optimizer[u] ELSE 0)

\* C15: at every point of a run, the number of step(unit) calls of each unit
\* is at most the schedule length epochs x steps_per_epoch passed in
\* scheduler_params.
C15_StepsWithinScheduleLength ==
    pc # "start" =>
        \A u \in Units :
            StepsThisRun(u)
                <= scheduler_params.epochs * scheduler_params.steps_per_epoch

\* the training batches of the run that passed the crop: each one steps msd
\* once, at the start of its discriminator phase
BatchesEntered == StepsThisRun("msd")

\* the current batch has passed its discriminator phase and is not counted
\* in iters yet
InFlight == IF outcome = "forwarded" /\ pc # "disc" THEN 1 ELSE 0

\* C16: within a run iters is never below its value when the current batch
\* was fetched; it is that value plus 1 once the batch has reached the end
\* of its step, and that value while the batch is in its step or after it
\* was skipped; it is unchanged from the last batch of an epoch through the
\* validation, the save point and the start of the next epoch; and it is
\* the number of batches of the run that were not skipped and have ended.
C16_ItersCountsSteppedBatches ==
    pc # "start" =>
        /\ iters >= pre.iters
        /\ outcome = "stepped" => iters = pre.iters + 1
        /\ outcome \in {"aligner_raised", "too_narrow", "forwarded", "none"} =>
               iters = pre.iters
        /\ iters = BatchesEntered - InFlight

\* in the second epoch of a run, a batch is skipped after the batch of the
\* first epoch was stepped: iters is still 1
C16_Witness ==
    /\ Skipped
    /\ epoch = start_epoch + 1
    /\ pre.iters = 1
    /\ iters = 1
    /\ BatchesEntered = 1

====
